---- MODULE Spec2Model ----
(***************************************************************************)
(* Model of src/index.tsx: the game loop of the App component (update),    *)
(* its input handlers (jump, togglePause, handleKeyDown, quitGame, retry,  *)
(* handleResize) and the asynchronous commentary request                   *)
(* (generateMotivation).                                                   *)
(*                                                                         *)
(* Units.  Horizontal lengths are in pixels.  Vertical lengths and the     *)
(* velocity are in 1/YScale pixel, because GRAVITY is 0.5 pixel per frame: *)
(* Y(px) converts.  birdY = 600 is the source's 300.                       *)
(*                                                                         *)
(* React.  gameState is the state of the last committed render: it is what *)
(* the closures of update, jump, togglePause and handleKeyDown read.  A    *)
(* setGameState called from an input handler is rendered before anything   *)
(* else runs (discrete event); the one called from the frame callback      *)
(* (triggerGameOver) is queued and rendered later: pendingGameOver, until  *)
(* the action commit.  A render that changes gameState re-creates update   *)
(* and runs the loop effect (cancel the pending frame, request a new one). *)
(* The display-only states (score, highScore, aiMessage, isAiLoading) are  *)
(* read by no handler and are written at once.                             *)
(***************************************************************************)
EXTENDS Integers, Sequences, FiniteSets, TLC

VARIABLES
  gameState,        \* useState<GameState>, as last rendered
  pendingGameOver,  \* setGameState('GAMEOVER') queued by a frame, not yet rendered
  score,            \* useState score (display)
  highScore,        \* useState highScore (NaN when the stored text is corrupt)
  stored,           \* localStorage 'strive_bird_highscore'
  aiMessage,        \* useState aiMessage
  isAiLoading,      \* useState isAiLoading
  birdY,            \* birdY.current
  birdVelocity,     \* birdVelocity.current
  pipes,            \* pipes.current
  frameCount,       \* frameCount.current
  scoreRef,         \* scoreRef.current
  framePending,     \* number of requested animation frames not yet run
  canvasW,          \* canvas.width
  canvasH,          \* canvas.height
  inflight,         \* fetch calls of generateMotivation not yet completed
  issued,           \* number of calls of generateMotivation so far
  apiKeyMissing,    \* !process.env.API_KEY
  passedGone,       \* history: passed pipes of the current run already shifted out
  drawn             \* the canvas shows the refs as they are now

vars == <<gameState, pendingGameOver, score, highScore, stored, aiMessage,
          isAiLoading, birdY, birdVelocity, pipes, frameCount, scoreRef,
          framePending, canvasW, canvasH, inflight, issued, apiKeyMissing,
          passedGone, drawn>>

simVars == <<birdY, birdVelocity, pipes, frameCount, scoreRef>>

---------------------------------------------------------------------------
\* Configuration (src/index.tsx:5-12)

YScale == 2
Y(px) == px * YScale

GRAVITY == YScale \div 2
JUMP_STRENGTH == -8
PIPE_SPEED == 3
PIPE_SPAWN_RATE == 100
PIPE_GAP == 160
BIRD_HITBOX == 24
PIPE_WIDTH == 60
BIRD_X == 50
BIRD_START == 300
MIN_PIPE == 50
GROUND_BUFFER == 50
MAX_WIDTH == 480

NaN == -1

\* Bounds of the exploration
MaxFrames == 205
MaxRuns == 2
InputPeriod == 30
RandomSamples == 3

\* window.innerWidth, window.innerHeight offered by the host
WindowSizes == {<<500, 600>>, <<143, 600>>, <<143, 290>>}

GameStates == {"START", "PLAYING", "GAMEOVER", "PAUSED"}

---------------------------------------------------------------------------
\* aiMessage values.  A fixed text has req = 0; a text derived from the
\* response to request req (issued for score sc) carries both.

Msg(k, r, s) == [kind |-> k, req |-> r, sc |-> s]
MSG_EMPTY == Msg("empty", 0, 0)
MSG_NOKEY == Msg("nokey", 0, 0)
MSG_THINKING == Msg("thinking", 0, 0)
MSG_NETWORK == Msg("network", 0, 0)
MSG_DEFAULT == Msg("default", 0, 0)
MSG_LOADING == Msg("loading", 0, 0)

\* How a fetch can end (src/index.tsx:70-108)
Outcomes == {"reject", "notOk", "noContent", "quote", "noQuote", "badJson"}

\* The text completion sets for request r ending as o
ResponseText(r, o) ==
  CASE o \in {"reject", "notOk"} -> MSG_NETWORK
    [] o = "noContent" -> MSG_THINKING
    [] o = "quote" -> Msg("quote", r.id, r.sc)
    [] o = "noQuote" -> Msg("content", r.id, r.sc)
    [] o = "badJson" -> Msg("stripped", r.id, r.sc)

\* Game Over screen, AI message area (src/index.tsx:441-452)
Displayed ==
  IF isAiLoading THEN MSG_LOADING
  ELSE IF aiMessage = MSG_EMPTY THEN MSG_DEFAULT ELSE aiMessage

---------------------------------------------------------------------------
\* Math.max with NaN (src/index.tsx:129)
MathMax(a, b) == IF a = NaN \/ b = NaN THEN NaN ELSE IF a >= b THEN a ELSE b

\* parseInt(saved, 10) of the stored text (src/index.tsx:41-42)
\* stored: [kind |-> "absent"], [kind |-> "text", n |-> NaN] for a text
\* parseInt cannot read, [kind |-> "text", n |-> k] for the digits of k.
LoadHighScore(saved) == IF saved.kind = "absent" THEN 0 ELSE saved.n

\* newHigh.toString() as stored by localStorage.setItem (src/index.tsx:130)
ToStored(n) == [kind |-> "text", n |-> n]

\* handleResize (src/index.tsx:354-359)
ResizeW(innerWidth) == IF innerWidth > MAX_WIDTH THEN MAX_WIDTH ELSE innerWidth
ResizeH(innerHeight) == Y(innerHeight)

\* The heights Math.floor(Math.random() * (maxPipe - minPipe + 1)) + minPipe can
\* give a new pipe (src/index.tsx:146-148): minPipe..maxPipe, or, when the canvas
\* is so low that the factor n is not positive, (maxPipe + 1)..minPipe.  The model
\* takes RandomSamples of them, evenly spread, both ends included.
RandomHeights(h) ==
  LET minPipe == MIN_PIPE
      maxPipe == (h \div YScale) - PIPE_GAP - minPipe - GROUND_BUFFER
      n  == maxPipe - minPipe + 1
      lo == IF n >= 1 THEN minPipe ELSE minPipe + n
      hi == IF n >= 1 THEN maxPipe ELSE minPipe
  IN  { Y(lo + ((hi - lo) * k) \div (RandomSamples - 1)) :
          k \in 0..(RandomSamples - 1) }

---------------------------------------------------------------------------
\* The loop

\* (mutant) the position is advanced by the velocity before gravity
IntegrateOldVelocity(y, v) == <<y + v, v + GRAVITY>>

\* Entity physics (src/index.tsx:140-141): <<position, velocity>> after a tick
Integrate(y, v) == <<y + (v + GRAVITY), v + GRAVITY>>

\* (mutant) a pipe is spawned on the first tick of every interval
SpawnOnFirstTick(ps, fc, w, h) ==
  IF fc % PIPE_SPAWN_RATE = 1
  THEN Append(ps, [x |-> w, topHeight |-> h, passed |-> FALSE])
  ELSE ps

\* Spawn pipes (src/index.tsx:144-154), fc the incremented frame count
Spawn(ps, fc, w, h) ==
  IF fc % PIPE_SPAWN_RATE = 0
  THEN Append(ps, [x |-> w, topHeight |-> h, passed |-> FALSE])
  ELSE ps

\* Move pipes (src/index.tsx:157-159)
MovePipes(ps) == [i \in DOMAIN ps |-> [ps[i] EXCEPT !.x = @ - PIPE_SPEED]]

\* (mutant) the front pipe leaves when its trailing edge is below -PIPE_WIDTH
OffScreenTrailingEdge(ps) == Len(ps) > 0 /\ ps[1].x + PIPE_WIDTH < -PIPE_WIDTH

\* Does the front pipe leave (src/index.tsx:162)
OffScreen(ps) == Len(ps) > 0 /\ ps[1].x < -PIPE_WIDTH

\* Remove off-screen pipes (src/index.tsx:162-164)
RemoveOffScreen(ps) == IF OffScreen(ps) THEN Tail(ps) ELSE ps

birdLeft == BIRD_X
birdRight == BIRD_X + BIRD_HITBOX
birdBottomOf(y) == y + Y(BIRD_HITBOX)

\* Ground/Ceiling collision (src/index.tsx:173)
HitsBounds(y, h) == birdBottomOf(y) >= h \/ y <= 0

\* (mutant) boxes that only touch count as a hit
HitsPipeTouching(y, p) ==
  /\ birdRight >= p.x /\ birdLeft <= p.x + PIPE_WIDTH
  /\ (y <= p.topHeight \/ birdBottomOf(y) >= p.topHeight + Y(PIPE_GAP))

\* Pipe collision (src/index.tsx:181-190)
HitsPipe(y, p) ==
  /\ birdRight > p.x /\ birdLeft < p.x + PIPE_WIDTH
  /\ (y < p.topHeight \/ birdBottomOf(y) > p.topHeight + Y(PIPE_GAP))

\* Score update condition (src/index.tsx:193)
Passes(p) == ~p.passed /\ birdLeft > p.x + PIPE_WIDTH

\* (mutant) the passed flag is never set
MarkPassedForgets(ps) == ps

\* Score update (src/index.tsx:193-197) over all pipes
MarkPassed(ps) ==
  [i \in DOMAIN ps |-> IF Passes(ps[i]) THEN [ps[i] EXCEPT !.passed = TRUE] ELSE ps[i]]

Gained(ps) == Cardinality({i \in DOMAIN ps : Passes(ps[i])})

\* cancelAnimationFrame(animationFrameId.current) (src/index.tsx:335)
CancelFrame(n) == IF n > 0 THEN n - 1 ELSE 0

\* (mutant) the effect has no cleanup: the pending frame is not cancelled
LoopEffectNoCancel(n) == n + 1

\* Handle Loop effect, run when update changes (src/index.tsx:333-336)
LoopEffect(n) == CancelFrame(n) + 1

\* requestAnimationFrame(update) at the end of update (src/index.tsx:285)
Reschedule(n) == n + 1

\* The frames pending after a render that takes gameState from old to new
AfterRender(old, new, n) == IF old = new THEN n ELSE LoopEffect(n)

\* generateMotivation up to its first await (src/index.tsx:46-85)
generateMotivation(finalScore) ==
  /\ issued' = issued + 1
  /\ IF apiKeyMissing
     THEN /\ aiMessage' = MSG_NOKEY
          /\ isAiLoading' = FALSE
          /\ inflight' = inflight
     ELSE /\ aiMessage' = MSG_EMPTY
          /\ isAiLoading' = TRUE
          /\ inflight' = inflight \cup {[id |-> issued + 1, sc |-> finalScore]}

\* (mutant) the run ends without the commentary being requested
triggerGameOverNoRequest ==
  /\ pendingGameOver' = TRUE
  /\ highScore' = MathMax(highScore, scoreRef')
  /\ stored' = ToStored(MathMax(highScore, scoreRef'))
  /\ UNCHANGED <<issued, aiMessage, isAiLoading, inflight>>

\* triggerGameOver (src/index.tsx:122-136)
triggerGameOver ==
  /\ pendingGameOver' = TRUE
  /\ highScore' = MathMax(highScore, scoreRef')
  /\ stored' = ToStored(MathMax(highScore, scoreRef'))
  /\ generateMotivation(scoreRef')

---------------------------------------------------------------------------
\* State after mount: the refs and states as constructed (src/index.tsx:25-37),
\* the Load High Score effect, the first handleResize and the first
\* requestAnimationFrame of the loop effect.

StoredAtStart ==
  {[kind |-> "absent", n |-> 0], [kind |-> "text", n |-> NaN]}

Init ==
  /\ gameState = "START"
  /\ pendingGameOver = FALSE
  /\ score = 0
  /\ stored \in StoredAtStart
  /\ highScore = LoadHighScore(stored)
  /\ aiMessage = MSG_EMPTY
  /\ isAiLoading = FALSE
  /\ birdY = Y(BIRD_START)
  /\ birdVelocity = 0
  /\ pipes = <<>>
  /\ frameCount = 0
  /\ scoreRef = 0
  /\ framePending = 1
  /\ \E s \in WindowSizes : canvasW = ResizeW(s[1]) /\ canvasH = ResizeH(s[2])
  /\ inflight = {}
  /\ issued = 0
  /\ apiKeyMissing \in BOOLEAN
  /\ passedGone = 0
  /\ drawn = FALSE

\* The host delivers events (inputs, resizes, network completions) to a running
\* game every InputPeriod frames, and at any time once the run has ended
InputAllowed ==
  (gameState = "PLAYING" /\ ~pendingGameOver) => frameCount % InputPeriod = 0

\* The host resizes the window only at those frames
ResizeAllowed == frameCount % InputPeriod = 0

\* (mutant) a reset that keeps the pipes
resetRefsKeepsPipes ==
  /\ score' = 0
  /\ scoreRef' = 0
  /\ aiMessage' = MSG_EMPTY
  /\ birdY' = Y(BIRD_START)
  /\ birdVelocity' = 0
  /\ pipes' = pipes
  /\ frameCount' = 0
  /\ passedGone' = 0
  /\ drawn' = (drawn /\ birdY = Y(BIRD_START) /\ birdVelocity = 0)

\* resetGame (src/index.tsx:288-297), without its setGameState
resetRefs ==
  /\ score' = 0
  /\ scoreRef' = 0
  /\ aiMessage' = MSG_EMPTY
  /\ birdY' = Y(BIRD_START)
  /\ birdVelocity' = 0
  /\ pipes' = <<>>
  /\ frameCount' = 0
  /\ passedGone' = 0
  /\ drawn' = (drawn /\ birdY = Y(BIRD_START) /\ birdVelocity = 0 /\ pipes = <<>>)

\* A render of the handlers' setGameState calls, the last of which sets new
\* (it is later in the queue than a pending GAMEOVER, which it replaces)
Render(new) ==
  /\ gameState' = new
  /\ pendingGameOver' = FALSE
  /\ framePending' = AfterRender(gameState, new, framePending)

\* One active tick of update (src/index.tsx:139-204), h the random height
Tick(h) ==
  LET yv     == Integrate(birdY, birdVelocity)
      y1     == yv[1]
      fc     == frameCount + 1
      moved  == MovePipes(Spawn(pipes, fc, canvasW, h))
      kept   == RemoveOffScreen(moved)
      gone   == IF OffScreen(moved) /\ moved[1].passed THEN 1 ELSE 0
      bounds == HitsBounds(y1, canvasH)
      collided == \E i \in DOMAIN kept : HitsPipe(y1, kept[i])
  IN  /\ birdY' = y1
      /\ birdVelocity' = yv[2]
      /\ frameCount' = fc
      /\ passedGone' = passedGone + gone
      /\ pipes' = IF bounds THEN kept ELSE MarkPassed(kept)
      /\ scoreRef' = IF bounds THEN scoreRef ELSE scoreRef + Gained(kept)
      /\ score' = IF bounds \/ Gained(kept) = 0 THEN score ELSE scoreRef'
      /\ IF bounds \/ collided
         THEN /\ triggerGameOver
              /\ framePending' = framePending - 1
              /\ drawn' = FALSE
         ELSE /\ framePending' = Reschedule(framePending - 1)
              /\ drawn' = TRUE
              /\ UNCHANGED <<pendingGameOver, highScore, stored, aiMessage,
                             isAiLoading, inflight, issued>>

\* (mutant) the physics also runs while PAUSED
updatePausedToo ==
  /\ framePending > 0
  /\ UNCHANGED <<gameState, canvasW, canvasH, apiKeyMissing>>
  /\ IF gameState \in {"PLAYING", "PAUSED"}
     THEN /\ frameCount < MaxFrames
          /\ issued < MaxRuns
          /\ \E h \in (IF (frameCount + 1) % PIPE_SPAWN_RATE = 0
                        THEN RandomHeights(canvasH) ELSE {0}) : Tick(h)
     ELSE /\ framePending' = Reschedule(framePending - 1)
          /\ drawn' = TRUE
          /\ UNCHANGED <<pendingGameOver, score, highScore, stored, aiMessage,
                         isAiLoading, birdY, birdVelocity, pipes, frameCount,
                         scoreRef, inflight, issued, passedGone>>

\* The frame callback update (src/index.tsx:115-286)
update ==
  /\ framePending > 0
  /\ UNCHANGED <<gameState, canvasW, canvasH, apiKeyMissing>>
  /\ IF gameState = "PLAYING"
     THEN /\ frameCount < MaxFrames
          /\ issued < MaxRuns
          /\ \E h \in (IF (frameCount + 1) % PIPE_SPAWN_RATE = 0
                        THEN RandomHeights(canvasH) ELSE {0}) : Tick(h)
     ELSE /\ framePending' = Reschedule(framePending - 1)
          /\ drawn' = TRUE
          /\ UNCHANGED <<pendingGameOver, score, highScore, stored, aiMessage,
                         isAiLoading, birdY, birdVelocity, pipes, frameCount,
                         scoreRef, inflight, issued, passedGone>>

\* React renders the queued setGameState('GAMEOVER') of triggerGameOver
commit ==
  /\ pendingGameOver
  /\ Render("GAMEOVER")
  /\ UNCHANGED <<score, highScore, stored, aiMessage, isAiLoading, birdY,
                 birdVelocity, pipes, frameCount, scoreRef, canvasW, canvasH,
                 inflight, issued, apiKeyMissing, passedGone, drawn>>

\* (mutant) the input that starts the run also applies the impulse
jumpImpulseOnStart ==
  /\ InputAllowed
  /\ UNCHANGED <<highScore, stored, isAiLoading, canvasW, canvasH, inflight,
                 issued, apiKeyMissing>>
  /\ IF gameState = "PLAYING"
     THEN /\ birdVelocity' = Y(JUMP_STRENGTH)
          /\ drawn' = (drawn /\ birdVelocity = Y(JUMP_STRENGTH))
          /\ UNCHANGED <<gameState, pendingGameOver, score, aiMessage, birdY,
                         pipes, frameCount, scoreRef, framePending, passedGone>>
     ELSE IF gameState = "START"
     THEN /\ score' = 0 /\ scoreRef' = 0 /\ aiMessage' = MSG_EMPTY
          /\ birdY' = Y(BIRD_START) /\ birdVelocity' = Y(JUMP_STRENGTH)
          /\ pipes' = <<>> /\ frameCount' = 0 /\ passedGone' = 0
          /\ drawn' = FALSE
          /\ Render("PLAYING")
     ELSE UNCHANGED <<gameState, pendingGameOver, score, aiMessage, birdY,
                      birdVelocity, pipes, frameCount, scoreRef, framePending,
                      passedGone, drawn>>

\* (mutant) the impulse also moves the entity at once
jumpMovesEntity ==
  /\ InputAllowed
  /\ UNCHANGED <<highScore, stored, isAiLoading, canvasW, canvasH, inflight,
                 issued, apiKeyMissing>>
  /\ IF gameState = "PLAYING"
     THEN /\ birdVelocity' = Y(JUMP_STRENGTH)
          /\ birdY' = birdY + Y(JUMP_STRENGTH)
          /\ drawn' = FALSE
          /\ UNCHANGED <<gameState, pendingGameOver, score, aiMessage,
                         pipes, frameCount, scoreRef, framePending, passedGone>>
     ELSE IF gameState = "START"
     THEN /\ resetRefs
          /\ Render("PLAYING")
     ELSE UNCHANGED <<gameState, pendingGameOver, score, aiMessage, birdY,
                      birdVelocity, pipes, frameCount, scoreRef, framePending,
                      passedGone, drawn>>

\* jump (src/index.tsx:317-330): mouse down, touch start or the Space key
jump ==
  /\ InputAllowed
  /\ UNCHANGED <<highScore, stored, isAiLoading, canvasW, canvasH, inflight,
                 issued, apiKeyMissing>>
  /\ IF gameState = "PLAYING"
     THEN /\ birdVelocity' = Y(JUMP_STRENGTH)
          /\ drawn' = (drawn /\ birdVelocity = Y(JUMP_STRENGTH))
          /\ UNCHANGED <<gameState, pendingGameOver, score, aiMessage, birdY,
                         pipes, frameCount, scoreRef, framePending, passedGone>>
     ELSE IF gameState = "START"
     THEN /\ resetRefs
          /\ Render("PLAYING")
     ELSE UNCHANGED <<gameState, pendingGameOver, score, aiMessage, birdY,
                      birdVelocity, pipes, frameCount, scoreRef, framePending,
                      passedGone, drawn>>

\* (mutant) a toggle that resumes from any state but PLAYING
ToggleNoStateCheck ==
  /\ InputAllowed
  /\ UNCHANGED <<score, highScore, stored, aiMessage, isAiLoading, birdY,
                 birdVelocity, pipes, frameCount, scoreRef, canvasW, canvasH,
                 inflight, issued, apiKeyMissing, passedGone, drawn>>
  /\ IF gameState = "PLAYING" THEN Render("PAUSED") ELSE Render("PLAYING")

\* The toggle of togglePause and of the Escape key (src/index.tsx:310-314, 343-344)
Toggle ==
  /\ InputAllowed
  /\ UNCHANGED <<score, highScore, stored, aiMessage, isAiLoading, birdY,
                 birdVelocity, pipes, frameCount, scoreRef, canvasW, canvasH,
                 inflight, issued, apiKeyMissing, passedGone, drawn>>
  /\ IF gameState = "PLAYING" THEN Render("PAUSED")
     ELSE IF gameState = "PAUSED" THEN Render("PLAYING")
     ELSE UNCHANGED <<gameState, pendingGameOver, framePending>>

\* togglePause (src/index.tsx:308-315), on the buttons shown while PLAYING or
\* PAUSED (src/index.tsx:380, 389-390, 408-409)
togglePause ==
  /\ gameState \in {"PLAYING", "PAUSED"}
  /\ Toggle

\* handleKeyDown, Escape (src/index.tsx:340-346)
escapeKey ==
  /\ Toggle

\* quitGame (src/index.tsx:304-306), on the buttons of the pause overlay and
\* of the game over screen (src/index.tsx:415, 463)
quitGame ==
  /\ gameState \in {"PAUSED", "GAMEOVER"}
  /\ resetRefs
  /\ Render("START")
  /\ UNCHANGED <<highScore, stored, isAiLoading, canvasW, canvasH, inflight,
                 issued, apiKeyMissing>>

\* (mutant) a retry that goes through the start screen
retryThroughStart ==
  /\ gameState = "GAMEOVER"
  /\ resetRefs
  /\ Render("START")
  /\ UNCHANGED <<highScore, stored, isAiLoading, canvasW, canvasH, inflight,
                 issued, apiKeyMissing>>

\* The retry button (src/index.tsx:456): resetGame(); setGameState('PLAYING')
retry ==
  /\ gameState = "GAMEOVER"
  /\ resetRefs
  /\ Render("PLAYING")
  /\ UNCHANGED <<highScore, stored, isAiLoading, canvasW, canvasH, inflight,
                 issued, apiKeyMissing>>

\* handleResize on a window resize (src/index.tsx:354-359)
handleResize ==
  /\ ResizeAllowed
  /\ \E s \in WindowSizes :
       /\ <<ResizeW(s[1]), ResizeH(s[2])>> # <<canvasW, canvasH>>
       /\ canvasW' = ResizeW(s[1])
       /\ canvasH' = ResizeH(s[2])
  /\ drawn' = FALSE
  /\ UNCHANGED <<gameState, pendingGameOver, score, highScore, stored, aiMessage,
                 isAiLoading, birdY, birdVelocity, pipes, frameCount, scoreRef,
                 framePending, inflight, issued, apiKeyMissing, passedGone>>

\* (mutant) the completion also shows the score the request was issued for
CompleteWithWritesScore(r, o) ==
  /\ InputAllowed
  /\ r \in inflight
  /\ inflight' = inflight \ {r}
  /\ aiMessage' = ResponseText(r, o)
  /\ isAiLoading' = FALSE
  /\ score' = r.sc
  /\ UNCHANGED <<gameState, pendingGameOver, highScore, stored, birdY,
                 birdVelocity, pipes, frameCount, scoreRef, framePending, canvasW,
                 canvasH, issued, apiKeyMissing, passedGone, drawn>>

\* The rest of generateMotivation, once the fetch of request r has ended as o
\* (src/index.tsx:87-111)
CompleteWith(r, o) ==
  /\ InputAllowed
  /\ r \in inflight
  /\ inflight' = inflight \ {r}
  /\ aiMessage' = ResponseText(r, o)
  /\ isAiLoading' = FALSE
  /\ UNCHANGED <<gameState, pendingGameOver, score, highScore, stored, birdY,
                 birdVelocity, pipes, frameCount, scoreRef, framePending, canvasW,
                 canvasH, issued, apiKeyMissing, passedGone, drawn>>

complete == \E r \in inflight, o \in Outcomes : CompleteWith(r, o)

Next ==
  \/ update
  \/ commit
  \/ jump
  \/ togglePause
  \/ escapeKey
  \/ quitGame
  \/ retry
  \/ handleResize
  \/ complete

Spec == Init /\ [][Next]_vars

---------------------------------------------------------------------------
\* C1 (as claimed): every change of the game state is one of: Idle to Active on
\* the primary input, Active to Ended by the render of a tick's fatal collision,
\* Active to Paused and back on the pause toggle, Ended to Idle on quit, Ended
\* to Active on retry.
C1_Listed ==
  \/ gameState = "START" /\ gameState' = "PLAYING" /\ jump
  \/ gameState = "PLAYING" /\ gameState' = "GAMEOVER" /\ commit
  \/ gameState = "PLAYING" /\ gameState' = "PAUSED" /\ (togglePause \/ escapeKey)
  \/ gameState = "PAUSED" /\ gameState' = "PLAYING" /\ (togglePause \/ escapeKey)
  \/ gameState = "GAMEOVER" /\ gameState' = "START" /\ quitGame
  \/ gameState = "GAMEOVER" /\ gameState' = "PLAYING" /\ retry

C1_OnlyListedTransitions == [][gameState' # gameState => C1_Listed]_vars

\* C1 (amended): the listed transitions and Paused to Idle on quit are the only
\* changes of the game state.
C1_TransitionsWithQuitFromPause ==
  [][gameState' # gameState =>
       \/ C1_Listed
       \/ gameState = "PAUSED" /\ gameState' = "START" /\ quitGame]_vars

\* a second run, paused: every kind of transition but one has been taken
C1_Witness == gameState = "PAUSED" /\ issued >= 1 /\ frameCount > 0

\* C2: a frame in PLAYING adds GRAVITY to the velocity and then the new velocity
\* to the position, once; from (300, 0) it gives (300.5, 0.5), from (300, -8)
\* it gives (292.5, -7.5).
C2_IntegratesOnce ==
  [][(update /\ gameState = "PLAYING") =>
       /\ birdVelocity' = birdVelocity + GRAVITY
       /\ birdY' = birdY + birdVelocity'
       /\ (birdY = 600 /\ birdVelocity = 0) => (birdY' = 601 /\ birdVelocity' = 1)
       /\ (birdY = 600 /\ birdVelocity = -16) => (birdY' = 585 /\ birdVelocity' = -15)]_vars

\* the first tick of a run after an impulse: 292.5, -7.5
C2_Witness ==
  gameState = "PLAYING" /\ frameCount = 1 /\ birdY = 585 /\ birdVelocity = -15

\* C3: in a PLAYING frame, after integration, the run ends exactly when the
\* entity box meets the ceiling or the floor or strictly overlaps, on both axes,
\* the top or the bottom segment box of a live pipe; a ceiling or floor hit is
\* decided before the pipes are looked at (no pipe is scored in that frame).
C3_Overlap(a, b) == a.l < b.r /\ a.r > b.l /\ a.t < b.b /\ a.b > b.t
C3_Entity(y) == [l |-> 50, r |-> 50 + 24, t |-> y, b |-> y + Y(24)]
C3_TopBox(p) == [l |-> p.x, r |-> p.x + 60, t |-> 0, b |-> p.topHeight]
C3_BottomBox(p, h) == [l |-> p.x, r |-> p.x + 60, t |-> p.topHeight + Y(160), b |-> h]
C3_Fatal(y, ps, h) ==
  \/ y <= 0
  \/ y + Y(24) >= h
  \/ \E i \in DOMAIN ps : \/ C3_Overlap(C3_Entity(y), C3_TopBox(ps[i]))
                           \/ C3_Overlap(C3_Entity(y), C3_BottomBox(ps[i], h))

C3_EndsIffCollision ==
  [][(update /\ gameState = "PLAYING") =>
       /\ (pendingGameOver' /\ ~pendingGameOver) <=> C3_Fatal(birdY', pipes', canvasH)
       /\ (birdY' <= 0 \/ birdY' + Y(24) >= canvasH) =>
            (scoreRef' = scoreRef /\ \A i \in DOMAIN pipes' :
                pipes'[i].passed => \E j \in DOMAIN pipes : pipes[j].passed)]_vars

\* a frame has left the run alive with the entity box and a segment box touching
\* on one axis and overlapping on the other
C3_Witness ==
  /\ gameState = "PLAYING" /\ ~pendingGameOver /\ drawn
  /\ \E i \in DOMAIN pipes :
       /\ pipes[i].x = birdRight \/ pipes[i].x + PIPE_WIDTH = birdLeft
       /\ birdY < pipes[i].topHeight \/ birdBottomOf(birdY) > pipes[i].topHeight + Y(PIPE_GAP)

\* C4 (as claimed): the score never decreases within a run, a tick adds one per
\* pipe newly marked passed, the score is the number of pipes of the run marked
\* passed (live or removed), and after every tick each live pipe whose trailing
\* edge is strictly left of the entity's left edge is marked.
C4_PassedCount == passedGone + Cardinality({i \in DOMAIN pipes : pipes[i].passed})

C4_NewlyMarked ==
  Cardinality({i \in DOMAIN pipes' : pipes'[i].passed}) + (passedGone' - passedGone)
    - Cardinality({i \in DOMAIN pipes : pipes[i].passed})

C4_Behind(p) == 50 > p.x + 60

C4_TickScore ==
  /\ scoreRef' = scoreRef + C4_NewlyMarked
  /\ scoreRef' >= scoreRef
  /\ \A i \in DOMAIN pipes' : pipes'[i].passed => C4_Behind(pipes'[i])

C4_ScoreCountsPassedPipes ==
  /\ [](scoreRef = C4_PassedCount /\ score = scoreRef)
  /\ [][(update /\ gameState = "PLAYING") =>
           /\ C4_TickScore
           /\ \A i \in DOMAIN pipes' : C4_Behind(pipes'[i]) => pipes'[i].passed]_vars

\* C4 (amended): as claimed, but a pipe is marked on the first tick that does
\* not end by a ceiling or floor collision and at which its trailing edge is
\* strictly left of the entity's left edge.
C4_ScoreCountsPassedPipesUnlessBounds ==
  /\ [](scoreRef = C4_PassedCount /\ score = scoreRef)
  /\ [][(update /\ gameState = "PLAYING") =>
           /\ C4_TickScore
           /\ ~(birdY' <= 0 \/ birdY' + Y(24) >= canvasH) =>
                \A i \in DOMAIN pipes' : C4_Behind(pipes'[i]) => pipes'[i].passed]_vars

\* a pipe was passed, scored once, and has left the stream
C4_Witness == gameState = "PLAYING" /\ passedGone = 1 /\ scoreRef = 1 /\ pipes = <<>>

\* C5: the primary input sets the velocity to JUMP_STRENGTH when PLAYING and in
\* no other state; in START it resets and starts the run with velocity 0 at the
\* initial position; in PAUSED and GAMEOVER it changes neither entity nor state.
C5_PrimaryInput ==
  [][/\ (jump /\ gameState = "PLAYING") =>
          (birdVelocity' = -16 /\ UNCHANGED <<gameState, birdY, pipes, frameCount, scoreRef>>)
     /\ (jump /\ gameState = "START") =>
          (/\ gameState' = "PLAYING" /\ birdVelocity' = 0 /\ birdY' = 600
           /\ pipes' = <<>> /\ frameCount' = 0 /\ scoreRef' = 0)
     /\ (jump /\ gameState \in {"PAUSED", "GAMEOVER"}) =>
          UNCHANGED <<gameState, birdY, birdVelocity, pipes, frameCount, scoreRef>>
     /\ (birdVelocity' = -16 /\ birdVelocity # -16) => (jump /\ gameState = "PLAYING")]_vars

\* the first run, just started by the primary input
C5_Witness ==
  /\ gameState = "PLAYING" /\ issued = 0 /\ frameCount = 0
  /\ birdY = 600 /\ birdVelocity = 0 /\ framePending = 1

\* C6: a frame in START, PAUSED or GAMEOVER leaves position, velocity, pipes,
\* spawn counter and score as they are; it draws and requests the next frame.
C6_InactiveFrame ==
  [][(update /\ gameState # "PLAYING") =>
       /\ UNCHANGED <<birdY, birdVelocity, pipes, frameCount, scoreRef, score, passedGone>>
       /\ drawn' /\ framePending' = 1]_vars

\* paused right after an impulse, and a frame has drawn since: no tick has
\* touched the velocity
C6_Witness == gameState = "PAUSED" /\ birdVelocity = -16 /\ drawn /\ frameCount > 0

\* C7 (as claimed): on the game over screen, a displayed response issued for
\* another score than the score of the run that has just ended is never shown:
\* a displayed response is the response to the last request.
C7_NoStaleCommentary ==
  (gameState = "GAMEOVER" /\ Displayed.req # 0 /\ Displayed.sc # scoreRef)
    => Displayed.req = issued

C9_SingleFallback ==
  [][\A r \in inflight, o \in Outcomes \ {"quote"} :
        CompleteWith(r, o) => Displayed' = MSG_NETWORK]_vars

\* C10: at most one frame callback is pending, and one is pending unless a
\* frame has just ended the run, in which case the render of GAMEOVER requests
\* one.
C10_OneFramePending ==
  /\ framePending <= 1
  /\ framePending = 0 => pendingGameOver

\* GAMEOVER has just been rendered after a frame that returned early: the loop
\* effect has requested the next frame while a request is in flight
C10_Witness ==
  gameState = "GAMEOVER" /\ framePending = 1 /\ ~drawn /\ inflight # {}

\* C11 (as claimed): at every run end the best score becomes the maximum of the
\* best score and the run's final score, and that is what is saved; in every
\* GAMEOVER state the best score is a number at least the score.
C11_Geq(a, b) == a # NaN /\ b # NaN /\ a >= b

C11_BestCoversScore ==
  gameState = "GAMEOVER" => (C11_Geq(highScore, scoreRef) /\ stored.n = highScore)

\* C12 (as claimed): with no stored best score or a corrupt one the best score
\* is 0 at start-up, and neither the displayed nor the saved best score is ever
\* the corrupt value.
C12_CorruptStoredIsZero ==
  /\ issued = 0 => highScore = 0
  /\ highScore # NaN
  /\ issued > 0 => stored.n # NaN

\* C13: resetGame, from whatever state it is called in (by the primary input in
\* START, by quit, by retry), leaves position 300, velocity 0, no pipes, spawn
\* counter 0 and score 0; called in a state it has just left, it changes none of
\* them.
C13_IsReset == (jump /\ gameState = "START") \/ quitGame \/ retry

C13_Initial(y, v, ps, fc, sr, sc) ==
  y = 600 /\ v = 0 /\ ps = <<>> /\ fc = 0 /\ sr = 0 /\ sc = 0

C13_ResetIdempotent ==
  [][C13_IsReset =>
       /\ C13_Initial(birdY', birdVelocity', pipes', frameCount', scoreRef', score')
       /\ C13_Initial(birdY, birdVelocity, pipes, frameCount, scoreRef, score)
            => UNCHANGED <<birdY, birdVelocity, pipes, frameCount, scoreRef, score>>]_vars

\* quit after a run that had passed a pipe: the score and the pipes are gone
C13_Witness ==
  /\ gameState = "START" /\ (\E r \in inflight : r.sc = 1)
  /\ C13_Initial(birdY, birdVelocity, pipes, frameCount, scoreRef, score)

\* The front pipe of pipes is no longer in pipes' (pipes move by 3 per tick)
C15_Removed == Len(pipes) > 0 /\ (Len(pipes') = 0 \/ pipes'[1].x # pipes[1].x - 3)

\* C14: frameCount counts the PLAYING ticks since the last reset; a tick appends
\* one pipe when the count reaches a multiple of 100 and none otherwise (none
\* before tick 100); a frame outside PLAYING leaves count and pipes alone; a
\* reset sets the count to 0.
C14_Appended == Len(pipes') - Len(pipes) + (IF C15_Removed THEN 1 ELSE 0)

C14_SpawnCadence ==
  /\ [](frameCount < 100 => pipes = <<>>)
  /\ [][/\ (update /\ gameState = "PLAYING") =>
             /\ frameCount' = frameCount + 1
             /\ C14_Appended = (IF frameCount' % 100 = 0 THEN 1 ELSE 0)
             /\ frameCount' % 100 = 0 =>
                  (pipes'[Len(pipes')].x = canvasW - 3 /\ ~pipes'[Len(pipes')].passed)
        /\ (update /\ gameState # "PLAYING") => UNCHANGED <<frameCount, pipes>>
        /\ (retry \/ quitGame \/ (jump /\ gameState = "START")) => frameCount' = 0
        /\ frameCount' # frameCount =>
             \/ update /\ gameState = "PLAYING"
             \/ frameCount' = 0 /\ pipes' = <<>>]_vars

\* the second pipe has just been appended behind the first
C14_Witness ==
  /\ gameState = "PLAYING" /\ ~pendingGameOver /\ frameCount = 200
  /\ Len(pipes) = 2 /\ pipes[2].x = canvasW - 3

C16_OrderedByX ==
  \A i, j \in DOMAIN pipes : i < j => pipes[i].x < pipes[j].x

\* C17 (as claimed): position, velocity, pipes, spawn counter, score and game
\* state change only in a frame of the loop, or in the render of the GAMEOVER a
\* frame has requested; no input handler changes them.
C17_WrittenOnlyInTick ==
  [][<<birdY, birdVelocity, pipes, frameCount, scoreRef, gameState>>'
        # <<birdY, birdVelocity, pipes, frameCount, scoreRef, gameState>>
      => (update \/ commit)]_vars

\* C17 (amended): position, pipes, spawn counter and score advance only in a
\* PLAYING frame; the handlers write at once: the primary input sets the
\* velocity, a reset (start, quit, retry) sets the initial values, and a
\* handler's change of game state is rendered in the handler's own step; a frame
\* never changes the game state it runs in; pause toggle, resize, the render of
\* GAMEOVER and the completion of a request write none of them.
C17_Reset == (jump /\ gameState = "START") \/ quitGame \/ retry

C17_HandlersWriteAtOnce ==
  [][/\ (jump /\ gameState = "PLAYING") =>
          (birdVelocity' = -16 /\ UNCHANGED <<birdY, pipes, frameCount, scoreRef, gameState>>)
     /\ <<birdY, pipes, frameCount, scoreRef>>' # <<birdY, pipes, frameCount, scoreRef>> =>
          \/ update /\ gameState = "PLAYING"
          \/ C17_Reset /\ birdY' = 600 /\ pipes' = <<>> /\ frameCount' = 0 /\ scoreRef' = 0
     /\ birdVelocity' # birdVelocity =>
          \/ update /\ gameState = "PLAYING"
          \/ jump /\ gameState = "PLAYING"
          \/ C17_Reset /\ birdVelocity' = 0
     /\ gameState' # gameState =>
          (~update /\ (C17_Reset \/ togglePause \/ escapeKey \/ commit))
     /\ (togglePause \/ escapeKey \/ handleResize \/ commit \/ complete) =>
          UNCHANGED <<birdY, birdVelocity, pipes, frameCount, scoreRef>>]_vars

\* the impulse has been written between two ticks: no tick leaves -8
C17_Witness ==
  /\ gameState = "PLAYING" /\ ~pendingGameOver /\ frameCount = 60
  /\ birdVelocity = -16 /\ ~drawn

\* C18: the completion of a request, however it ends and whenever it arrives,
\* changes aiMessage, isAiLoading and the set of requests in flight, nothing
\* else.
C18_CompletionWritesDisplayOnly ==
  [][complete =>
       /\ UNCHANGED <<birdY, birdVelocity, pipes, frameCount, scoreRef, score,
                      highScore, stored, gameState, pendingGameOver, framePending,
                      canvasW, canvasH, issued, passedGone>>
       /\ ~isAiLoading'
       /\ \E r \in inflight, o \in Outcomes :
            inflight' = inflight \ {r} /\ aiMessage' = ResponseText(r, o)]_vars

\* the response to the first run's request has arrived 30 ticks into the next
\* run
C18_Witness ==
  /\ gameState = "PLAYING" /\ frameCount = 30 /\ issued = 1
  /\ aiMessage.req = 1 /\ ~isAiLoading /\ inflight = {}

\* C19: retry takes GAMEOVER to PLAYING in one step, with the values a reset
\* followed by a start gives, and one frame requested; GAMEOVER is left for
\* START only by quit.
C19_Started ==
  /\ gameState' = "PLAYING" /\ ~pendingGameOver' /\ framePending' = 1
  /\ birdY' = 600 /\ birdVelocity' = 0 /\ pipes' = <<>> /\ frameCount' = 0
  /\ scoreRef' = 0 /\ score' = 0 /\ aiMessage' = MSG_EMPTY

C19_RetryIsAtomic ==
  [][/\ retry => (gameState = "GAMEOVER" /\ C19_Started)
     /\ (jump /\ gameState = "START") => C19_Started
     /\ (gameState = "GAMEOVER" /\ gameState' # "GAMEOVER") =>
          \/ retry /\ gameState' = "PLAYING"
          \/ quitGame /\ gameState' = "START"]_vars

\* a run started while the request of the run before is still in flight
C19_Witness ==
  /\ gameState = "PLAYING" /\ issued = 1 /\ frameCount = 0 /\ framePending = 1
  /\ isAiLoading /\ inflight # {} /\ birdY = 600 /\ birdVelocity = 0

\* C20 (as claimed): once a frame has requested GAMEOVER, the next game state
\* rendered is GAMEOVER: no step taken before that render changes the game
\* state to anything else.
C20_EndedIsRendered ==
  [][pendingGameOver =>
       (gameState' = "GAMEOVER" \/ (pendingGameOver' /\ gameState' = gameState))]_vars

====
